---- MODULE Spec2Model ----
(***************************************************************************)
(* Model of src/main.py: the admin login / session backend.               *)
(*                                                                         *)
(* Text (header values, tokens) is a sequence of one-character strings, so *)
(* that str.replace works on it character by character.  Timestamps are   *)
(* whole hours.  The two collections db["adminuser"] and db["session"] are *)
(* sequences of documents in insertion order.                              *)
(***************************************************************************)
EXTENDS Integers, Sequences, FiniteSets, TLC

VARIABLES db, adminuser, session, now, proc, hist, issued, last, inflight

vars == <<db, adminuser, session, now, proc, hist, issued, last, inflight>>

----------------------------------------------------------------------------
(* Bounds of the model *)

\* latest clock value explored
MaxTime == 12
\* hours one step of the clock advances
TickHours == 4
\* successful store-mode logins explored in one run
MaxLogins == 2

(* Program constants *)

\* timedelta(hours=8)
SessionHours == 8

----------------------------------------------------------------------------
(* Values *)

\* a field a document does not carry / Python's None
Missing == "<missing>"

\* the literal "Bearer "
BearerPrefix == <<"B", "e", "a", "r", "e", "r", " ">>

\* the literal "demo-token"
demo_token == <<"d", "e", "m", "o", "-", "t", "o", "k", "e", "n">>

\* the literal "wrong"
wrong_token == <<"w", "r", "o", "n", "g">>

\* Values secrets.token_hex can return: strings of hex digits only (the
\* program's have 48 digits; these stand-ins have 2).  Nothing makes two
\* calls return different values.
HexTokens == { <<"a", "e">>, <<"0", "f">> }

Usernames == {"admin", "bob"}

\* "pw1" and "pw2" stand for two plaintexts with one SHA-256 digest (the
\* domain is unbounded, the digest has 256 bits, so such pairs exist).
Passwords == {"admin123", "pw1", "pw2"}

----------------------------------------------------------------------------
(* Pure functions *)

\* hashlib.sha256(password.encode()).hexdigest(): deterministic, unsalted
hash_password(password) ==
    CASE password = "admin123" -> "sha256:240be518"
      [] password = "pw1"      -> "sha256:7c4a8d09"
      [] password = "pw2"      -> "sha256:7c4a8d09"

StartsWith(s, p) == Len(s) >= Len(p) /\ SubSeq(s, 1, Len(p)) = p

\* str.replace(old, new) with a non-empty old: every non-overlapping
\* occurrence, found left to right, is replaced; the result is not rescanned.
RECURSIVE str_replace(_, _, _)
str_replace(s, old, new) ==
    IF Len(s) < Len(old) THEN s
    ELSE IF StartsWith(s, old)
         THEN new \o str_replace(SubSeq(s, Len(old) + 1, Len(s)), old, new)
         ELSE <<Head(s)>> \o str_replace(Tail(s), old, new)

\* token = authorization.replace("Bearer ", "")
ExtractToken(authorization) == str_replace(authorization, BearerPrefix, <<>>)

\* dict.get(key, default)
Get(doc, key, default) == IF doc[key] = Missing THEN default ELSE doc[key]

----------------------------------------------------------------------------
(* The store *)

\* the document insert_one appends, with the _id the store gives it
WithId(coll, doc) == [doc EXCEPT !._id = Len(coll) + 1]

\* a write that is sent twice
insert_one_Twice(coll, doc) ==
    Append(Append(coll, WithId(coll, doc)), WithId(Append(coll, doc), doc))

\* a write that replaces the collection's documents
insert_one_Replace(coll, doc) == <<WithId(<<>>, doc)>>

\* a write that overwrites the newest document of the collection
insert_one_Overwrite(coll, doc) ==
    IF coll = <<>> THEN <<WithId(coll, doc)>>
    ELSE [coll EXCEPT ![Len(coll)] = WithId(SubSeq(coll, 1, Len(coll) - 1), doc)]

insert_one(coll, doc) == Append(coll, WithId(coll, doc))

\* a document matches a filter {field: value, ...}
Matches(doc, filter) == \A key \in DOMAIN filter : doc[key] = filter[key]

\* The documents find_one may return for a filter, by position: any matching
\* document (no sort is given, so which one is the store's choice); none
\* when the set is empty.
find_one(coll, filter) == { i \in 1..Len(coll) : Matches(coll[i], filter) }

\* the document create_default_admin inserts
DefaultAdmin ==
    [ _id |-> 0, name |-> "Administrator", email |-> "admin@example.com",
      username |-> "admin", password_hash |-> hash_password("admin123"),
      role |-> "admin", is_active |-> TRUE ]

\* a login that stores a fixed role instead of the user's
NewSession_FixedRole(user, token) ==
    [ _id |-> 0, user_id |-> user._id, token |-> token, role |-> "admin",
      expires_at |-> {now + SessionHours}, revoked |-> FALSE,
      name |-> Missing ]

\* a login that forgets to add the issuance time to the lifetime
NewSession_LifetimeOnly(user, token) ==
    [ _id |-> 0, user_id |-> user._id, token |-> token,
      role |-> Get(user, "role", "admin"),
      expires_at |-> {SessionHours}, revoked |-> FALSE, name |-> Missing ]

\* a login that also stores the user's display name in the session
NewSession_WithName(user, token) ==
    [ _id |-> 0, user_id |-> user._id, token |-> token,
      role |-> Get(user, "role", "admin"),
      expires_at |-> {now + SessionHours}, revoked |-> FALSE,
      name |-> Get(user, "name", "Admin") ]

\* The document login inserts into db["session"]; it has no "name" key,
\* which the record shows as name |-> Missing.
NewSession(user, token) ==
    [ _id |-> 0, user_id |-> user._id, token |-> token,
      role |-> Get(user, "role", "admin"),
      expires_at |-> {now + SessionHours}, revoked |-> FALSE,
      name |-> Missing ]

----------------------------------------------------------------------------
(* create_default_admin *)

\* the pymongo calls of create_default_admin that can raise
StoreFaults == {"none", "find_one", "insert_one"}

\* {"username": "admin"}
AdminFilter == [username |-> "admin"]

\* a body that inserts without looking for an existing "admin"
DefaultAdminBody_NoCheck(fault) ==
    IF db = Missing \/ fault # "none"
    THEN [insert |-> <<>>, raisedAt |-> IF db = Missing THEN "none" ELSE fault]
    ELSE [insert |-> <<DefaultAdmin>>, raisedAt |-> "none"]

\* The body of the try block under a store fault: what it inserts, and the
\* store call that raised ("none": it ran to its end).
DefaultAdminBody(fault) ==
    IF db = Missing
    THEN \* existing = None; "not existing and db" is false
         [insert |-> <<>>, raisedAt |-> "none"]
    ELSE IF fault = "find_one"
    THEN [insert |-> <<>>, raisedAt |-> "find_one"]
    ELSE IF find_one(adminuser, AdminFilter) # {}
    THEN [insert |-> <<>>, raisedAt |-> "none"]
    ELSE IF fault = "insert_one"
    THEN [insert |-> <<>>, raisedAt |-> "insert_one"]
    ELSE [insert |-> <<DefaultAdmin>>, raisedAt |-> "none"]

\* the body without its try/except: an exception reaches the caller
create_default_admin_NoExcept(fault) ==
    LET body == DefaultAdminBody(fault)
    IN  [insert |-> body.insert, raisedAt |-> body.raisedAt,
         raised |-> body.raisedAt # "none"]

\* try: ... except Exception: pass
create_default_admin(fault) ==
    LET body == DefaultAdminBody(fault)
    IN  [insert |-> body.insert, raisedAt |-> body.raisedAt, raised |-> FALSE]

----------------------------------------------------------------------------
(* login *)

NoLogin(status, detail) ==
    [status |-> status, detail |-> detail, token |-> <<>>, name |-> Missing,
     role |-> Missing, found |-> 0, insert |-> <<>>]

\* a login that never compares the password
LoginAs_NoPasswordCheck(i, password) ==
    LET user == adminuser[i]
    IN  { [status |-> 200, detail |-> "", token |-> token,
           name |-> Get(user, "name", "Admin"),
           role |-> Get(user, "role", "admin"),
           found |-> i, insert |-> <<NewSession(user, token)>>]
          : token \in HexTokens }

\* the outcomes of login for one active user document found
LoginAs(i, password) ==
    LET user == adminuser[i]
    IN  IF Get(user, "password_hash", Missing) # hash_password(password)
        THEN {NoLogin(401, "Invalid credentials")}
        ELSE { [status |-> 200, detail |-> "", token |-> token,
                name |-> Get(user, "name", "Admin"),
                role |-> Get(user, "role", "admin"),
                found |-> i, insert |-> <<NewSession(user, token)>>]
               : token \in HexTokens }

\* the answers of login when db is None
DemoLoginOk ==
    [status |-> 200, detail |-> "", token |-> demo_token,
     name |-> "Administrator", role |-> "admin", found |-> 0, insert |-> <<>>]

\* a demo branch that checks the username only
DemoLogin_UsernameOnly(username, password) ==
    IF username = "admin"
    THEN {DemoLoginOk}
    ELSE {NoLogin(500, "Database not configured")}

\* the branch of login taken when db is None
DemoLogin(username, password) ==
    IF username = "admin" /\ password = "admin123"
    THEN {DemoLoginOk}
    ELSE {NoLogin(500, "Database not configured")}

\* the outcomes of POST /api/login
login(username, password) ==
    IF db = Missing
    THEN DemoLogin(username, password)
    ELSE LET hits == find_one(adminuser,
                              [username |-> username, is_active |-> TRUE])
         IN  IF hits = {}
             THEN {NoLogin(401, "User not found or inactive")}
             ELSE UNION { LoginAs(i, password) : i \in hits }

----------------------------------------------------------------------------
(* require_auth and dashboard *)

NoHeader == [present |-> FALSE, value |-> <<>>]

HeaderOf(text) == [present |-> TRUE, value |-> text]

NoAuth(detail, token, found) ==
    [status |-> 401, detail |-> detail, token |-> token, found |-> found,
     role |-> Missing, name |-> Missing]

\* an expiry test that also rejects at the instant of expiry
IsExpired_AtInstant(s) == s.expires_at # {} /\ \E e \in s.expires_at : e <= now

\* an expiry test that takes a missing expires_at for expired
IsExpired_MissingExpires(s) == s.expires_at = {} \/ \E e \in s.expires_at : e < now

\* a handler without the expiry test
IsExpired_Never(s) == FALSE

\* session.get("expires_at") and session["expires_at"] < datetime.now(...)
IsExpired(s) == s.expires_at # {} /\ \E e \in s.expires_at : e < now

\* a handler that looks the session's user up again
AuthAs_CheckUser(i, token) ==
    LET owners == { j \in 1..Len(adminuser) :
                       /\ adminuser[j]._id = session[i].user_id
                       /\ adminuser[j].is_active }
    IN  IF IsExpired(session[i])
        THEN NoAuth("Token expired", token, i)
        ELSE IF owners = {}
        THEN NoAuth("Invalid token", token, i)
        ELSE [status |-> 200, detail |-> "", token |-> token, found |-> i,
              role |-> Get(adminuser[CHOOSE j \in owners : TRUE], "role", "admin"),
              name |-> session[i].name]

\* the outcomes of require_auth for one session document found
AuthAs(i, token) ==
    IF IsExpired(session[i])
    THEN NoAuth("Token expired", token, i)
    ELSE [status |-> 200, detail |-> "", token |-> token, found |-> i,
          role |-> session[i].role, name |-> session[i].name]

\* a filter that forgets the revoked flag
SessionFilter_AnyRevoked(token) == [token |-> token]

\* the filter {"token": token, "revoked": False}
SessionFilter(token) == [token |-> token, revoked |-> FALSE]

\* a handler that takes the demo token whether or not a store is configured
require_auth_DemoAlways(authorization) ==
    IF ~authorization.present
    THEN {NoAuth("Missing Authorization header", <<>>, 0)}
    ELSE LET token == ExtractToken(authorization.value)
             hits == find_one(session, SessionFilter(token))
         IN  IF token = demo_token
             THEN {[status |-> 200, detail |-> "", token |-> token,
                    found |-> 0, role |-> "admin", name |-> "Administrator"]}
             ELSE IF db = Missing \/ hits = {}
             THEN {NoAuth("Invalid token", token, 0)}
             ELSE { AuthAs(i, token) : i \in hits }

\* the outcomes of require_auth(authorization)
require_auth(authorization) ==
    IF ~authorization.present
    THEN {NoAuth("Missing Authorization header", <<>>, 0)}
    ELSE LET token == ExtractToken(authorization.value)
         IN  IF db = Missing
             THEN IF token = demo_token
                  THEN {[status |-> 200, detail |-> "", token |-> token,
                         found |-> 0, role |-> "admin",
                         name |-> "Administrator"]}
                  ELSE {NoAuth("Invalid token", token, 0)}
             ELSE LET hits == find_one(session, SessionFilter(token))
                  IN  IF hits = {}
                      THEN {NoAuth("Invalid token", token, 0)}
                      ELSE { AuthAs(i, token) : i \in hits }

Stats == [students |-> 1240, teachers |-> 68, classes |-> 32, alumni |-> 5400]

Announcements ==
    << [title |-> "Penerimaan Santri Baru", date |-> "2025-06-01"],
       [title |-> "Ujian Akhir Semester", date |-> "2025-12-15"] >>

\* the body GET /api/dashboard returns for the identity require_auth gave
dashboard(auth) ==
    [user |-> [name |-> Get(auth, "name", "Administrator")],
     stats |-> Stats, announcements |-> Announcements]

----------------------------------------------------------------------------
(* The state machine *)

\* what the last step did: the request and the response of a handler
Idle(op) ==
    [op |-> op, username |-> Missing, password |-> Missing,
     authorization |-> NoHeader, status |-> 0, detail |-> "", token |-> <<>>,
     found |-> 0, role |-> Missing, name |-> Missing, body |-> <<>>,
     raisedAt |-> "none", raised |-> FALSE]

UserDoc(id, username, password, role, active, name) ==
    [ _id |-> id, name |-> name, email |-> "user@example.com",
      username |-> username, password_hash |-> hash_password(password),
      role |-> role, is_active |-> active ]

SessionDoc(id, token, role, expires, revoked) ==
    [ _id |-> id, user_id |-> 1, token |-> token, role |-> role,
      expires_at |-> expires, revoked |-> revoked, name |-> Missing ]

\* the server processes (or request threads) that share the store
Workers == {"w1", "w2"}

\* a worker whose handlers run one at a time, each in one step
NotRunning == [pc |-> "none", pending |-> <<>>]

\* Contents of db["adminuser"] when the process starts: the collection is
\* persistent and managed from outside; usernames are unique in it.
InitUsers ==
    { <<>>,
      <<WithId(<<>>, DefaultAdmin)>>,
      <<UserDoc(1, "admin", "pw1", "editor", FALSE, "Old Admin"),
        UserDoc(2, "bob", "pw1", "editor", TRUE, "Bob")>>,
      <<UserDoc(1, "bob", "admin123", Missing, TRUE, Missing),
        UserDoc(2, "admin", "pw2", "admin", TRUE, "Root")>> }

\* Contents of db["session"] when the process starts: sessions of earlier
\* runs, one of them revoked from outside, one without expires_at.
InitSessions ==
    { <<>>,
      <<SessionDoc(1, <<"a", "e">>, "admin", {SessionHours}, TRUE),
        SessionDoc(2, <<"0", "f">>, "editor", {}, FALSE)>>,
      <<SessionDoc(1, <<"0", "f">>, "editor", {TickHours}, FALSE)>> }

Init ==
    /\ db \in {Missing, "mongo"}
    /\ adminuser \in (IF db = Missing THEN {<<>>} ELSE InitUsers)
    /\ session \in (IF db = Missing THEN {<<>>} ELSE InitSessions)
    /\ now = 0
    /\ proc = "starting"
    /\ hist = [admin0 |-> Cardinality(find_one(adminuser, AdminFilter)),
               booted |-> FALSE]
    /\ issued = <<>>
    /\ last = Idle("init")
    /\ inflight = [w \in Workers |-> NotRunning]

\* A process start: startup_event runs create_default_admin, then the
\* application serves.  A serving process may be stopped and started again
\* at any time; the store keeps its contents.
Startup ==
    /\ proc \in {"starting", "serving"}
    /\ \E fault \in StoreFaults :
         LET r == create_default_admin(fault)
         IN  /\ adminuser' = IF r.insert = <<>> THEN adminuser
                             ELSE insert_one(adminuser, r.insert[1])
             /\ proc' = IF r.raised THEN "crashed" ELSE "serving"
             /\ hist' = [hist EXCEPT !.booted =
                            @ \/ (db # Missing /\ r.raisedAt = "none")]
             /\ last' = [Idle("startup") EXCEPT !.raisedAt = r.raisedAt,
                                                !.raised = r.raised]
    /\ UNCHANGED <<db, session, now, issued, inflight>>

\* POST /api/login
Login ==
    /\ proc = "serving"
    /\ \E username \in Usernames, password \in Passwords :
         \E r \in login(username, password) :
            /\ r.insert # <<>> => Len(issued) < MaxLogins
            /\ session' = IF r.insert = <<>> THEN session
                          ELSE insert_one(session, r.insert[1])
            /\ issued' = IF r.insert = <<>> THEN issued
                         ELSE Append(issued,
                                [token |-> r.token, role |-> r.role,
                                 name |-> r.name, user |-> r.found,
                                 expires_at |-> now + SessionHours,
                                 sid |-> Len(session) + 1])
            /\ last' = [Idle("login") EXCEPT
                          !.username = username, !.password = password,
                          !.status = r.status, !.detail = r.detail,
                          !.token = r.token, !.found = r.found,
                          !.role = r.role, !.name = r.name]
    /\ UNCHANGED <<db, adminuser, now, proc, hist, inflight>>

\* the header values requests carry
HeaderTokens == HexTokens \cup {demo_token, wrong_token}

Headers ==
    {NoHeader}
    \cup { HeaderOf(t) : t \in HeaderTokens }
    \cup { HeaderOf(BearerPrefix \o t) : t \in HeaderTokens }
    \cup { HeaderOf(BearerPrefix \o BearerPrefix \o t) :
              t \in {demo_token, <<"a", "e">>} }
    \cup { HeaderOf(SubSeq(t, 1, 1) \o BearerPrefix \o SubSeq(t, 2, Len(t))) :
              t \in {demo_token, <<"a", "e">>} }

\* GET /api/dashboard, with its dependency require_auth
Dashboard ==
    /\ proc = "serving"
    /\ \E authorization \in Headers :
         \E auth \in require_auth(authorization) :
            last' = [Idle("dashboard") EXCEPT
                       !.authorization = authorization,
                       !.status = auth.status, !.detail = auth.detail,
                       !.token = auth.token, !.found = auth.found,
                       !.role = auth.role, !.name = auth.name,
                       !.body = IF auth.status = 200
                                THEN <<dashboard(auth)>> ELSE <<>>]
    /\ UNCHANGED <<db, adminuser, session, now, proc, hist, issued, inflight>>

\* The "database" entry of the answer of GET /test; failed: whether
\* list_collection_names raised (the handler catches it).
test_database(failed) ==
    IF db = Missing THEN "Available but not initialized"
    ELSE IF failed THEN "Connected but Error"
    ELSE "Connected & Working"

\* GET /test: the diagnostic endpoint, which only reads
TestDatabase ==
    /\ proc = "serving"
    /\ \E failed \in BOOLEAN :
          last' = [Idle("test") EXCEPT !.status = 200,
                                      !.detail = test_database(failed)]
    /\ UNCHANGED <<db, adminuser, session, now, proc, hist, issued, inflight>>

\* datetime.now(timezone.utc) moves on
Tick ==
    /\ now + TickHours <= MaxTime
    /\ now' = now + TickHours
    /\ last' = Idle("tick")
    /\ UNCHANGED <<db, adminuser, session, proc, hist, issued, inflight>>

Next == Startup \/ Login \/ Dashboard \/ TestDatabase \/ Tick

Spec == Init /\ [][Next]_vars

----------------------------------------------------------------------------
(* Interleaved executions: every store call is a step of its own *)

At(w, pc, pending) == [inflight EXCEPT ![w] = [pc |-> pc, pending |-> pending]]

\* the workers that have a login between its find_one and its insert_one
LoginsInFlight == { w \in Workers : inflight[w].pc = "login_insert" }

\* create_default_admin up to "if not existing and db": the find_one
BootCheck(w) ==
    /\ inflight[w].pc = "starting"
    /\ LET body == DefaultAdminBody("none")
       IN  inflight' = IF body.insert = <<>>
                       THEN At(w, "serving", <<>>)
                       ELSE At(w, "boot_insert", body.insert)
    /\ last' = Idle("bootcheck")
    /\ UNCHANGED <<db, adminuser, session, now, proc, hist, issued>>

\* create_default_admin from the insert_one on
BootInsert(w) ==
    /\ inflight[w].pc = "boot_insert"
    /\ adminuser' = insert_one(adminuser, inflight[w].pending[1])
    /\ inflight' = At(w, "serving", <<>>)
    /\ last' = Idle("bootinsert")
    /\ UNCHANGED <<db, session, now, proc, hist, issued>>

\* login up to the insert_one: find_one, password check, token, expires.
\* A login that is refused makes one store call and writes nothing, so it
\* has nothing to interleave: Login covers it.
LoginFind(w) ==
    /\ inflight[w].pc = "serving"
    /\ \E username \in Usernames, password \in Passwords :
         \E r \in login(username, password) :
            LET answer == [Idle("login") EXCEPT
                             !.username = username, !.password = password,
                             !.status = r.status, !.detail = r.detail,
                             !.token = r.token, !.found = r.found,
                             !.role = r.role, !.name = r.name]
            IN  /\ r.insert # <<>>
                /\ Len(issued) + Cardinality(LoginsInFlight) < MaxLogins
                /\ last' = Idle("loginfind")
                /\ inflight' = At(w, "login_insert",
                                  <<[answer |-> answer,
                                     insert |-> r.insert[1],
                                     expires |-> now + SessionHours]>>)
    /\ UNCHANGED <<db, adminuser, session, now, proc, hist, issued>>

\* login from the insert_one on: the write and the answer
LoginInsert(w) ==
    /\ inflight[w].pc = "login_insert"
    /\ LET p == inflight[w].pending[1]
       IN  /\ session' = insert_one(session, p.insert)
           /\ issued' = Append(issued,
                           [token |-> p.answer.token, role |-> p.answer.role,
                            name |-> p.answer.name, user |-> p.answer.found,
                            expires_at |-> p.expires,
                            sid |-> Len(session) + 1])
           /\ last' = p.answer
    /\ inflight' = At(w, "serving", <<>>)
    /\ UNCHANGED <<db, adminuser, now, proc, hist>>

\* GET /api/dashboard served by a worker that has started, for the
\* requests that carry "Bearer " and a token login can issue
DashboardConc ==
    /\ \E w \in Workers : inflight[w].pc \in {"serving", "login_insert"}
    /\ Dashboard
    /\ last'.authorization \in { HeaderOf(BearerPrefix \o t) : t \in HexTokens }

\* Two workers start against one store, which is empty or holds two active
\* users.
InitConc ==
    /\ db = "mongo"
    /\ adminuser \in { u \in InitUsers :
                          Len(u) # 1 /\ \A i \in 1..Len(u) : u[i].is_active }
    /\ session = <<>>
    /\ now = 0
    /\ proc = "serving"
    /\ hist = [admin0 |-> Cardinality(find_one(adminuser, AdminFilter)),
               booted |-> FALSE]
    /\ issued = <<>>
    /\ last = Idle("init")
    /\ inflight = [w \in Workers |-> [pc |-> "starting", pending |-> <<>>]]

NextConc ==
    \/ \E w \in Workers : BootCheck(w)
    \/ \E w \in Workers : BootInsert(w)
    \/ \E w \in Workers : LoginFind(w)
    \/ \E w \in Workers : LoginInsert(w)
    \/ DashboardConc
    \/ Tick

SpecConc == InitConc /\ [][NextConc]_vars

----------------------------------------------------------------------------
(* The user collection is changed from outside while sessions exist *)

\* a deleted document: its position stays, so that _id values are not reused
Deleted(doc) ==
    [key \in DOMAIN doc |-> IF key = "_id" THEN doc._id
                            ELSE IF key = "is_active" THEN FALSE
                            ELSE Missing]

\* what an administrator of the store may do to a user document
Changed(doc, change) ==
    CASE change = "deactivate" -> [doc EXCEPT !.is_active = FALSE]
      [] change = "role"       -> [doc EXCEPT !.role = "viewer"]
      [] change = "delete"     -> Deleted(doc)

\* A user who holds a session is deactivated, given another role, or
\* deleted, by whoever manages db["adminuser"].
ManageUser ==
    /\ proc = "serving"
    /\ \E k \in 1..Len(issued), change \in {"deactivate", "role", "delete"} :
          LET i == issued[k].user
          IN  /\ adminuser[i].username # Missing
              /\ adminuser' = [adminuser EXCEPT ![i] = Changed(@, change)]
              /\ adminuser' # adminuser
    /\ last' = Idle("manage")
    /\ UNCHANGED <<db, session, now, proc, hist, issued, inflight>>

\* a store with an active user "bob" and no sessions
InitAdmin ==
    /\ Init
    /\ db = "mongo"
    /\ \E i \in 1..Len(adminuser) : adminuser[i].name = "Bob"
    /\ session = <<>>

NextAdmin == Startup \/ Login \/ Dashboard \/ Tick \/ ManageUser

SpecAdmin == InitAdmin /\ [][NextAdmin]_vars

----------------------------------------------------------------------------
(* Properties *)

\* the last step was GET /api/dashboard against a configured store
StoreAuth == db # Missing /\ last.op = "dashboard"

\* the last request carried token t in one of the two accepted forms
Carries(t) ==
    last.authorization \in {HeaderOf(t), HeaderOf(BearerPrefix \o t)}

\* the session documents that carry token t and are not revoked
Live(t) == { j \in 1..Len(session) : session[j].token = t /\ ~session[j].revoked }

\* C1 (as stated): a token returned by a store-mode login authenticates, as
\* "Bearer <token>", at any later time before its expiry and whatever other
\* logins and requests came in between, and the identity has the role the
\* login returned.
C1_RoundTrip ==
    \A k \in 1..Len(issued) :
        ( /\ StoreAuth
          /\ last.authorization = HeaderOf(BearerPrefix \o issued[k].token)
          /\ now < issued[k].expires_at )
        => (last.status = 200 /\ last.role = issued[k].role)

\* C1 (amended): the same, provided no other session document that is not
\* revoked carries the same token when the request is made.
C1_RoundTripUniqueToken ==
    \A k \in 1..Len(issued) :
        ( /\ StoreAuth
          /\ last.authorization = HeaderOf(BearerPrefix \o issued[k].token)
          /\ now < issued[k].expires_at
          /\ Live(issued[k].token) = {issued[k].sid} )
        => (last.status = 200 /\ last.role = issued[k].role)

\* C1 witness: the first of two logins' tokens, a non-default role, is
\* accepted at a later clock value, after the second login.
C1_Witness ==
    /\ StoreAuth /\ Len(issued) = 2 /\ now > 0
    /\ last.authorization = HeaderOf(BearerPrefix \o issued[1].token)
    /\ now < issued[1].expires_at
    /\ Live(issued[1].token) = {issued[1].sid}
    /\ last.status = 200 /\ last.role = "editor"

\* C2: a token that no session document carries, or only revoked ones,
\* is rejected with 401, whatever the clock.
C2_UnknownOrRevoked ==
    \A t \in HeaderTokens :
        (StoreAuth /\ Carries(t) /\ Live(t) = {}) => last.status = 401

\* C2 witness: the token of a revoked session is rejected at a later time.
C2_Witness ==
    /\ StoreAuth /\ now > 0 /\ last.status = 401
    /\ \E j \in 1..Len(session) :
          /\ session[j].revoked
          /\ last.authorization = HeaderOf(BearerPrefix \o session[j].token)
          /\ Live(session[j].token) = {}

\* C3: a token whose non-revoked sessions all expired strictly before now is
\* rejected with 401; a token whose non-revoked sessions have no expires_at
\* is accepted at every clock value.
C3_Expiry ==
    \A t \in HeaderTokens :
        (StoreAuth /\ Carries(t) /\ Live(t) # {}) =>
            /\ (\A j \in Live(t) : \E e \in session[j].expires_at : e < now)
                  => last.status = 401
            /\ (\A j \in Live(t) : session[j].expires_at = {})
                  => last.status = 200

\* C3 witness: a session without expires_at is accepted at the latest clock
\* value of the model.
C3_Witness ==
    /\ StoreAuth /\ now + TickHours > MaxTime /\ now > SessionHours
    /\ last.status = 200
    /\ last.found # 0
    /\ session[last.found].expires_at = {}

\* the last request carried a header and find_one gave a session document
\* that carries the token looked up and is not revoked
FoundLive ==
    /\ last.found # 0
    /\ session[last.found].token = last.token
    /\ ~session[last.found].revoked

\* C4 (as stated): a token is accepted iff the session found is not revoked
\* and its expires_at is absent or in the future, at every clock value
\* including now = expires_at.
C4_ValidIffFuture ==
    (StoreAuth /\ last.authorization.present) =>
        ( last.status = 200
          <=> (FoundLive /\ \A e \in session[last.found].expires_at : e > now) )

\* C4 (amended): a token is accepted iff the session found is not revoked and
\* its expires_at is absent or not earlier than now.
C4_ValidIffNotPast ==
    (StoreAuth /\ last.authorization.present) =>
        ( last.status = 200
          <=> (FoundLive /\ \A e \in session[last.found].expires_at : e >= now) )

\* C4 witness: a session is accepted at the instant now = expires_at.
C4_Witness ==
    /\ StoreAuth /\ last.status = 200 /\ last.found # 0
    /\ session[last.found].expires_at = {now}

\* some active user document has this username and the digest of this password
GoodCredentials(username, password) ==
    \E i \in 1..Len(adminuser) :
        /\ adminuser[i].username = username
        /\ adminuser[i].is_active
        /\ adminuser[i].password_hash = hash_password(password)

\* C5: in store mode a login whose username has no active user, or whose
\* password's digest differs from the stored digest, answers 401, returns no
\* token and leaves both collections as they were.
C5_BadLoginNoEffect ==
    [][ ( /\ db # Missing
          /\ last'.op = "login"
          /\ ~GoodCredentials(last'.username, last'.password) )
        => ( /\ last'.status = 401
             /\ last'.token = <<>>
             /\ session' = session
             /\ adminuser' = adminuser ) ]_vars

\* C5 witness: a wrong password for an existing active user was answered 401
\* while the store already held sessions and users.
C5_Witness ==
    /\ db # Missing /\ last.op = "login" /\ last.status = 401
    /\ last.detail = "Invalid credentials"
    /\ ~GoodCredentials(last.username, last.password)
    /\ \E i \in 1..Len(adminuser) :
          adminuser[i].username = last.username /\ adminuser[i].is_active
    /\ session # <<>>

\* C6: without a store, login answers 200 with demo-token / Administrator /
\* admin exactly for admin / admin123 and 500 for every other pair, and
\* nothing is ever persisted.
C6_DemoLogin ==
    db = Missing =>
        /\ session = <<>> /\ adminuser = <<>> /\ issued = <<>>
        /\ last.op = "login" =>
              IF last.username = "admin" /\ last.password = "admin123"
              THEN /\ last.status = 200
                   /\ last.token = demo_token
                   /\ last.name = "Administrator"
                   /\ last.role = "admin"
              ELSE last.status = 500 /\ last.token = <<>>

\* C6 witness: a wrong password for admin was answered 500 in demo mode.
C6_Witness ==
    /\ db = Missing /\ last.op = "login"
    /\ last.username = "admin" /\ last.password # "admin123"
    /\ last.status = 500

\* the token a header value carries: the value without one leading "Bearer "
BearerToken(value) ==
    IF StartsWith(value, BearerPrefix)
    THEN SubSeq(value, Len(BearerPrefix) + 1, Len(value))
    ELSE value

\* C7 (as stated): without a store, a request without header is rejected with
\* 401, and a request with a header is accepted iff the token it carries is
\* demo-token, then as admin / Administrator with the fixed stats.
C7_OnlyDemoToken ==
    (db = Missing /\ last.op = "dashboard") =>
        IF ~last.authorization.present
        THEN last.status = 401
        ELSE /\ last.status \in {200, 401}
             /\ last.status = 200
                   <=> BearerToken(last.authorization.value) = demo_token
             /\ last.status = 200 =>
                   /\ last.role = "admin" /\ last.name = "Administrator"
                   /\ last.body = <<dashboard(last)>>

\* whether some admin document exists
HasAdmin(coll) == find_one(coll, AdminFilter) # {}

C10_PrefixOnly ==
    (last.op = "dashboard" /\ last.authorization.present) =>
        last.token = BearerToken(last.authorization.value)

\* no two documents of a session collection carry the same token
TokensUnique(coll) ==
    \A i, j \in 1..Len(coll) : coll[i].token = coll[j].token => i = j

TokensOf(coll) == { coll[i].token : i \in 1..Len(coll) }

C12_LoginEffect ==
    [][ (db # Missing /\ last'.op = "login" /\ last'.status = 200) =>
          /\ Len(session') = Len(session) + 1
          /\ SubSeq(session', 1, Len(session)) = session
          /\ adminuser' = adminuser
          /\ last'.found \in 1..Len(adminuser)
          /\ LET s == session'[Len(session')]
                 user == adminuser[last'.found]
             IN  /\ s.token = last'.token
                 /\ s.user_id = user._id
                 /\ user.username = last'.username /\ user.is_active
                 /\ s.role = Get(user, "role", "admin")
                 /\ s.role = last'.role
                 /\ s.revoked = FALSE
                 /\ s.expires_at = {now + SessionHours} ]_vars

\* C12 witness: a login at a later clock value, by a user with another role
\* than the default, on a store that already held a session.
C12_Witness ==
    /\ db # Missing /\ last.op = "login" /\ last.status = 200
    /\ last.role = "editor" /\ now > 0 /\ Len(session) >= 2
    /\ session[Len(session)].expires_at = {now + SessionHours}

\* C13: no step removes a session document or changes one; the sessions
\* logins issued stay not revoked; GET /api/dashboard (with require_auth),
\* GET /test and Bootstrap leave the session collection as it is, and the
\* first two leave the user collection as it is too.
C13_AppendOnly ==
    /\ [][ /\ Len(session') >= Len(session)
           /\ SubSeq(session', 1, Len(session)) = session
           /\ last'.op \in {"dashboard", "test", "startup"}
                 => session' = session
           /\ last'.op \in {"dashboard", "test"}
                 => adminuser' = adminuser ]_vars
    /\ [] ( \A k \in 1..Len(issued) :
               /\ issued[k].sid \in 1..Len(session)
               /\ session[issued[k].sid].token = issued[k].token
               /\ session[issued[k].sid].revoked = FALSE )

\* C13 witness: a session a login issued was rejected as expired and is
\* still stored, after a later login.
C13_Witness ==
    /\ StoreAuth /\ last.detail = "Token expired" /\ Len(issued) = 2
    /\ last.found = issued[1].sid
    /\ \E e \in session[last.found].expires_at : e < now

\* C15 (as stated): a token a store-mode login issued at time t is accepted
\* at every time up to t + 8 hours and at no later time.
C15_Window ==
    \A k \in 1..Len(issued) :
        (StoreAuth /\ last.authorization = HeaderOf(BearerPrefix \o issued[k].token))
        => (last.status = 200 <=> now <= issued[k].expires_at)

\* C15 (amended): the same while no other session document that is not
\* revoked carries the token; the clock never goes back and no step changes
\* an issued session, so a window that closed stays closed unless a later
\* login draws the same token.
C15_WindowUniqueToken ==
    /\ [] ( \A k \in 1..Len(issued) :
               ( /\ StoreAuth
                 /\ last.authorization = HeaderOf(BearerPrefix \o issued[k].token)
                 /\ Live(issued[k].token) = {issued[k].sid} )
               => (last.status = 200 <=> now <= issued[k].expires_at) )
    /\ [][ /\ now' >= now
           /\ \A k \in 1..Len(issued) :
                 /\ issued'[k] = issued[k]
                 /\ session'[issued[k].sid] = session[issued[k].sid] ]_vars

\* C15 witness: after its window the token of the first login is rejected,
\* although the same user logged in again.
C15_Witness ==
    /\ StoreAuth /\ Len(issued) = 2
    /\ issued[2].user = issued[1].user
    /\ last.authorization = HeaderOf(BearerPrefix \o issued[1].token)
    /\ Live(issued[1].token) = {issued[1].sid}
    /\ now > issued[1].expires_at /\ now <= issued[2].expires_at
    /\ last.status = 401 /\ last.detail = "Token expired"

\* C16: with a store configured, no login issues "demo-token"; the header
\* "Bearer demo-token" is accepted only if a session document that is not
\* revoked and not expired carries that token; login with admin / admin123
\* succeeds only if an active "admin" document carries the matching digest.
C16_DemoConfined ==
    db # Missing =>
        /\ \A k \in 1..Len(issued) : issued[k].token # demo_token
        /\ ( /\ last.op = "dashboard"
             /\ last.authorization = HeaderOf(BearerPrefix \o demo_token)
             /\ last.status = 200 )
           => \E j \in Live(demo_token) :
                 \A e \in session[j].expires_at : e >= now
        /\ ( /\ last.op = "login" /\ last.status = 200
             /\ last.username = "admin" /\ last.password = "admin123" )
           => GoodCredentials("admin", "admin123")

\* C16 witness: with a store configured and the default admin present,
\* "Bearer demo-token" is rejected.
C16_Witness ==
    /\ StoreAuth /\ HasAdmin(adminuser)
    /\ last.authorization = HeaderOf(BearerPrefix \o demo_token)
    /\ last.status = 401

\* C19: the user.name of the dashboard answer is the identity's name, or
\* "Administrator" when it has none; for a session a login wrote it is
\* "Administrator", whatever name the login returned.
C19_DashboardName ==
    (last.op = "dashboard" /\ last.status = 200) =>
        /\ Len(last.body) = 1
        /\ last.body[1].user.name =
              (IF last.name = Missing THEN "Administrator" ELSE last.name)
        /\ \A k \in 1..Len(issued) :
              (db # Missing /\ last.found = issued[k].sid)
              => last.body[1].user.name = "Administrator"

\* C19 witness: the token of a login that returned the name "Bob" gets a
\* dashboard for "Administrator".
C19_Witness ==
    /\ StoreAuth /\ last.status = 200
    /\ \E k \in 1..Len(issued) :
          /\ last.found = issued[k].sid
          /\ issued[k].name = "Bob"
    /\ last.body[1].user.name = "Administrator"

\* C14: when the bootstraps of several workers interleave, the user
\* collection ends with exactly one document with username "admin".
C14_OneAdmin ==
    (\A w \in Workers : inflight[w].pc \in {"serving", "login_insert"})
    => Cardinality(find_one(adminuser, AdminFilter)) = 1

\* C17: what require_auth answers depends on the session collection and the
\* clock only: a step that changes the user collection and leaves both
\* alone leaves the answer to every issued token alone, and the token of a
\* login whose user was since deactivated, deleted or given another role is
\* accepted up to its expiry, with the role the login gave.
C17_SessionOnly ==
    /\ [] ( \A k \in 1..Len(issued) :
               ( /\ StoreAuth
                 /\ last.authorization = HeaderOf(BearerPrefix \o issued[k].token)
                 /\ Live(issued[k].token) = {issued[k].sid} )
               => /\ last.status = 200 <=> now <= issued[k].expires_at
                  /\ last.status = 200 => last.role = issued[k].role )
    /\ [][ (adminuser' # adminuser /\ session' = session /\ now' = now)
           => \A k \in 1..Len(issued) :
                 require_auth(HeaderOf(BearerPrefix \o issued[k].token))'
                    = require_auth(HeaderOf(BearerPrefix \o issued[k].token)) ]_vars

\* C17 witness: a token is accepted with the role of its login after the
\* user who logged in was deleted, or deactivated and given another role.
C17_Witness ==
    /\ StoreAuth /\ last.status = 200
    /\ \E k \in 1..Len(issued) :
          /\ last.found = issued[k].sid
          /\ last.role = issued[k].role
          /\ ~adminuser[issued[k].user].is_active
          /\ adminuser[issued[k].user].role # issued[k].role

\* every session a login wrote is in the collection as it was written
IssuedKept ==
    \A k \in 1..Len(issued) :
        /\ issued[k].sid \in 1..Len(session)
        /\ session[issued[k].sid].token = issued[k].token
        /\ session[issued[k].sid].role = issued[k].role
        /\ session[issued[k].sid].expires_at = {issued[k].expires_at}
        /\ ~session[issued[k].sid].revoked

\* C18 (as stated): logins, interleaved or not, each add their own session
\* and lose none, and every token any of them returned is accepted until
\* its own expiry.
C18_Coexist ==
    /\ IssuedKept
    /\ \A k \in 1..Len(issued) :
          ( /\ StoreAuth
            /\ last.authorization = HeaderOf(BearerPrefix \o issued[k].token)
            /\ now <= issued[k].expires_at )
          => last.status = 200

\* C18 (amended): each login adds its own session and loses none; a token
\* is accepted until its own expiry while no other session document that
\* is not revoked carries it.
C18_CoexistUniqueToken ==
    /\ [] ( /\ IssuedKept
            /\ \A k \in 1..Len(issued) :
                  ( /\ StoreAuth
                    /\ last.authorization = HeaderOf(BearerPrefix \o issued[k].token)
                    /\ Live(issued[k].token) = {issued[k].sid}
                    /\ now <= issued[k].expires_at )
                  => last.status = 200 /\ last.found = issued[k].sid )
    /\ [][ Len(issued') > Len(issued)
           => /\ Len(issued') = Len(issued) + 1
              /\ Len(session') = Len(session) + 1
              /\ SubSeq(session', 1, Len(session)) = session ]_vars

\* C18 witness: two logins overlapped (the one that computed its expiry first
\* wrote its session last), and the token of the other is accepted.
C18_Witness ==
    /\ StoreAuth /\ Len(issued) = 2
    /\ issued[2].expires_at < issued[1].expires_at
    /\ issued[1].token # issued[2].token
    /\ last.authorization = HeaderOf(BearerPrefix \o issued[1].token)
    /\ last.status = 200 /\ last.found = issued[1].sid

====
